---- MODULE Spec2Model ----
(***************************************************************************)
(* Model of the creditos application: loans (Prestamo), their French       *)
(* amortization schedules (Amortizacion) and the payment-state forms.      *)
(*                                                                         *)
(* Money is held in integer cents (a Decimal with two places), annual      *)
(* rates in hundredths of a percent (a Decimal with two places), dates as  *)
(* <<year, month, day>>.                                                    *)
(***************************************************************************)
EXTENDS Integers, Sequences, FiniteSets, TLC

VARIABLES
    prestamos,       \* the Prestamo table: pk -> row
    amortizaciones,  \* the Amortizacion table: a set of rows, at most one
                     \* per (prestamo, numero_cuota) (unique_together)
    hoy,             \* date.today()
    ultimo_pk,       \* the last Prestamo pk handed out (AutoField)
    resp,            \* the last response: view, success, form errors
    gen,             \* locals of a running generar_amortizacion
    pendientes,      \* payment updates whose form is valid and not yet saved
    lectura          \* the derived fields of the installment last displayed

vars == <<prestamos, amortizaciones, hoy, ultimo_pk, resp, gen, pendientes, lectura>>

\* None for a date field
NULL == <<>>

\* no generar_amortizacion is running
GenNinguno == [pk |-> 0, numero_cuota |-> 0, saldo |-> 0, cuota |-> 0,
               fecha_pago |-> NULL]

\* no installment has been displayed
LecturaNinguna == [cuota |-> NULL, dias_mora |-> 0, estado |-> <<"", 0>>]

\* no request has been answered yet
RespNinguna == [vista |-> "", ok |-> TRUE, errores |-> {}]

(***************************************************************************)
(* Natural numbers of arbitrary size: little-endian sequences of limbs in  *)
(* base BASE, without leading zero limbs (zero is <<>>).  They carry the   *)
(* powers (1 + i)**n of cuota_mensual, which Python's Decimal holds to 28  *)
(* significant digits.                                                     *)
(***************************************************************************)
BASE == 10 * 10 * 10

Max(a, b) == IF a > b THEN a ELSE b
Min(a, b) == IF a < b THEN a ELSE b

RECURSIVE BigOfInt(_)
BigOfInt(x) == IF x = 0 THEN <<>> ELSE <<x % BASE>> \o BigOfInt(x \div BASE)

\* drop the leading zero limbs
BigTrim(c) ==
    LET nz == {k \in 1..Len(c) : c[k] # 0}
    IN  IF nz = {} THEN <<>>
        ELSE SubSeq(c, 1, CHOOSE k \in nz : \A j \in nz : j <= k)

\* carry (or borrow) propagation: each pass keeps limb % BASE and hands
\* limb \div BASE to the next limb, until every limb is in 0..BASE-1
RECURSIVE BigNorm(_)
BigNorm(c) ==
    IF \A k \in 1..Len(c) : c[k] >= 0 /\ c[k] < BASE
    THEN BigTrim(c)
    ELSE BigNorm([k \in 1..(Len(c) + 1) |->
                    (IF k <= Len(c) THEN c[k] % BASE ELSE 0)
                  + (IF k > 1 THEN c[k - 1] \div BASE ELSE 0)])

BigAdd(x, y) ==
    BigNorm([k \in 1..Max(Len(x), Len(y)) |->
                (IF k <= Len(x) THEN x[k] ELSE 0) + (IF k <= Len(y) THEN y[k] ELSE 0)])

\* x - y for x >= y
BigSub(x, y) ==
    BigNorm([k \in 1..Len(x) |-> x[k] - (IF k <= Len(y) THEN y[k] ELSE 0)])

\* sum of x[i] * y[k + 1 - i] for i in lo..hi
RECURSIVE BigColumn(_, _, _, _, _)
BigColumn(x, y, k, lo, hi) ==
    IF lo > hi THEN 0
    ELSE IF lo = hi THEN x[lo] * y[k + 1 - lo]
    ELSE LET mid == (lo + hi) \div 2
         IN  BigColumn(x, y, k, lo, mid) + BigColumn(x, y, k, mid + 1, hi)

BigMul(x, y) ==
    IF Len(x) = 0 \/ Len(y) = 0 THEN <<>>
    ELSE BigNorm([k \in 1..(Len(x) + Len(y)) |->
                    BigColumn(x, y, k, Max(1, k + 1 - Len(y)), Min(Len(x), k))])

\* x * m for a machine integer m >= 0
BigMulInt(x, m) == BigMul(x, BigOfInt(m))

\* x <= y
BigLeq(x, y) ==
    IF Len(x) # Len(y) THEN Len(x) < Len(y)
    ELSE LET df == {k \in 1..Len(x) : x[k] # y[k]}
         IN  IF df = {} THEN TRUE
             ELSE LET top == CHOOSE k \in df : \A j \in df : j <= k
                  IN  x[top] < y[top]

RECURSIVE BigPow(_, _)
BigPow(m, n) ==
    IF n = 0 THEN <<1>>
    ELSE LET h  == BigPow(m, n \div 2)
             h2 == BigMul(h, h)
         IN  IF n % 2 = 0 THEN h2 ELSE BigMulInt(h2, m)

\* the largest q in lo..hi with q * den <= num (lo satisfies it)
RECURSIVE BigQuot(_, _, _, _)
BigQuot(num, den, lo, hi) ==
    IF lo = hi THEN lo
    ELSE LET mid == (lo + hi + 1) \div 2
         IN  IF BigLeq(BigMulInt(den, mid), num)
             THEN BigQuot(num, den, mid, hi)
             ELSE BigQuot(num, den, lo, mid - 1)

\* num / den rounded to an integer in 0..hi, ties to even (ROUND_HALF_EVEN,
\* the rounding of the default Decimal context, which quantize uses)
BigRoundHalfEven(num, den, hi) ==
    LET q  == BigQuot(num, den, 0, hi)
        r2 == BigMulInt(BigSub(num, BigMulInt(den, q)), 2)
    IN  IF r2 = den THEN (IF q % 2 = 0 THEN q ELSE q + 1)
        ELSE IF BigLeq(den, r2) THEN q + 1
        ELSE q

RECURSIVE GCD(_, _)
GCD(a, b) == IF b = 0 THEN a ELSE GCD(b, a % b)

\* the quotient limbs of the long division of limbs idx..1 of x by a
\* machine integer m, rem being the remainder carried in from above
RECURSIVE BigDivLimbs(_, _, _, _)
BigDivLimbs(x, m, idx, rem) ==
    IF idx = 0 THEN <<>>
    ELSE LET t == rem * BASE + x[idx]
         IN  BigDivLimbs(x, m, idx - 1, t % m) \o <<t \div m>>

\* floor(x / m) for a machine integer 0 < m <= 2000000
BigDivInt(x, m) == BigTrim(BigDivLimbs(x, m, Len(x), 0))

BigPow10(j) == BigPow(10, j)

\* floor(x / 10**j)
BigDivPow10(x, j) ==
    LET a == j \div 3
        b == j % 3
    IN  IF a >= Len(x) THEN <<>>
        ELSE BigDivInt(SubSeq(x, a + 1, Len(x)),
                       IF b = 0 THEN 1 ELSE IF b = 1 THEN 10 ELSE 100)

BigEven(x) == Len(x) = 0 \/ x[1] % 2 = 0

\* x / den rounded half-even, q being floor(x / den)
BigHalfEven(x, den, q) ==
    LET r2 == BigMulInt(BigSub(x, BigMul(q, den)), 2)
    IN  IF r2 = den THEN (IF BigEven(q) THEN q ELSE BigAdd(q, <<1>>))
        ELSE IF BigLeq(den, r2) THEN BigAdd(q, <<1>>)
        ELSE q

\* number of decimal digits of x
BigDigits(x) ==
    IF Len(x) = 0 THEN 0
    ELSE 3 * (Len(x) - 1)
         + (IF x[Len(x)] >= 100 THEN 3 ELSE IF x[Len(x)] >= 10 THEN 2 ELSE 1)

RECURSIVE BigToInt(_)
BigToInt(x) == IF Len(x) = 0 THEN 0 ELSE x[1] + BASE * BigToInt(Tail(x))

(***************************************************************************)
(* Decimal values: coef * 10**(-exp) with coef a natural number of at most *)
(* Prec significant digits, the precision of the default Decimal context;  *)
(* every arithmetic result is rounded to Prec digits, ties to even.        *)
(***************************************************************************)
Prec == 28

\* a result coef * 10**(-exp) rounded to Prec significant digits
DecRound(coef, exp) ==
    LET d == BigDigits(coef)
    IN  IF d <= Prec THEN [coef |-> coef, exp |-> exp]
        ELSE [coef |-> BigHalfEven(coef, BigPow10(d - Prec),
                                   BigDivPow10(coef, d - Prec)),
              exp  |-> exp - (d - Prec)]

\* x.quantize(Decimal('0.01')) in cents, for a value with exp >= 2
DecQuantizeCents(x) ==
    BigToInt(BigHalfEven(x.coef, BigPow10(x.exp - 2),
                         BigDivPow10(x.coef, x.exp - 2)))

(***************************************************************************)
(* Calendar.                                                               *)
(***************************************************************************)
IsLeap(y) == (y % 4 = 0 /\ y % 100 # 0) \/ y % 400 = 0

DaysInMonth(y, m) ==
    IF m = 2 THEN (IF IsLeap(y) THEN 29 ELSE 28)
    ELSE IF m \in {4, 6, 9, 11} THEN 30 ELSE 31

RECURSIVE DaysBeforeMonth(_, _)
DaysBeforeMonth(y, m) ==
    IF m = 1 THEN 0 ELSE DaysBeforeMonth(y, m - 1) + DaysInMonth(y, m - 1)

\* date.toordinal(): days since 0001-01-01, that day being 1
Ordinal(d) ==
    LET y == d[1] - 1
    IN  y * 365 + y \div 4 - y \div 100 + y \div 400
        + DaysBeforeMonth(d[1], d[2]) + d[3]

\* a < b for two dates
DateLess(a, b) ==
    \/ a[1] < b[1]
    \/ a[1] = b[1] /\ a[2] < b[2]
    \/ a[1] = b[1] /\ a[2] = b[2] /\ a[3] < b[3]

\* d + relativedelta(months=1): next month, the day clipped to its length
AddMonth(d) ==
    LET y == IF d[2] = 12 THEN d[1] + 1 ELSE d[1]
        m == IF d[2] = 12 THEN 1 ELSE d[2] + 1
    IN  <<y, m, Min(d[3], DaysInMonth(y, m))>>

\* d + timedelta(days=1)
NextDay(d) ==
    IF d[3] < DaysInMonth(d[1], d[2]) THEN <<d[1], d[2], d[3] + 1>>
    ELSE IF d[2] < 12 THEN <<d[1], d[2] + 1, 1>>
    ELSE <<d[1] + 1, 1, 1>>

(***************************************************************************)
(* Prestamo: derived amounts and the schedule generator.                   *)
(***************************************************************************)
\* tasa / TasaDen is the exact monthly rate tasa_interes_anual / 12 / 100 of
\* an annual rate of tasa hundredths of a percent
TasaDen == 12 * 100 * 100

\* the number of places that bring tasa / 1200 to at least 1
RECURSIVE Escala(_)
Escala(tasa) == IF tasa >= 1200 THEN 0 ELSE 1 + Escala(tasa * 10)

\* x / Decimal('100'): x * 10**(-places)
DecShift(x, places) == [coef |-> x.coef, exp |-> x.exp + places]

\* num * 10**(-e) / 1200 rounded to Prec digits
DecDivide1200(num, e) ==
    DecRound(BigHalfEven(num, BigOfInt(1200), BigDivInt(num, 1200)), e)

\* tasa hundredths of a percent / Decimal('12') carried to e places
DecDiv12(tasa, e) == DecDivide1200(BigMulInt(BigPow10(e), tasa), e)

\* tasa_mensual: tasa_interes_anual / Decimal('12') rounded to Prec digits,
\* then / Decimal('100'), which only moves the exponent
tasa_mensual(tasa) == DecShift(DecDiv12(tasa, Prec - 1 + Escala(tasa)), 2)

\* cuota_mensual with the quotient cut to cents instead of rounded
cuota_mensual_Truncada(monto, tasa, plazo) ==
    LET g    == GCD(tasa, TasaDen)
        a    == tasa \div g
        b    == TasaDen \div g
        up   == BigPow(a + b, plazo)
        down == BigPow(b, plazo)
        num  == BigMulInt(BigMulInt(up, a), monto)
        den  == BigMulInt(BigSub(up, down), b)
    IN  BigQuot(num, den, 0, 2 * monto)

\* monto * (i * (1 + i)**n) / ((1 + i)**n - 1), quantized to cents, with
\* i = a / b the monthly rate tasa / TasaDen in lowest terms:
\* monto * a * (a + b)**n over b * ((a + b)**n - b**n).
cuota_mensual(monto, tasa, plazo) ==
    LET g    == GCD(tasa, TasaDen)
        a    == tasa \div g
        b    == TasaDen \div g
        up   == BigPow(a + b, plazo)
        down == BigPow(b, plazo)
        num  == BigMulInt(BigMulInt(up, a), monto)
        den  == BigMulInt(BigSub(up, down), b)
    IN  BigRoundHalfEven(num, den, 2 * monto)

\* (saldo * self.tasa_mensual).quantize(Decimal('0.01')): the product is
\* rounded to Prec digits, then to cents
InteresDe(saldo, tm) ==
    DecQuantizeCents(DecRound(BigMulInt(tm.coef, saldo), tm.exp + 2))

Interes(saldo, tasa) == InteresDe(saldo, tasa_mensual(tasa))

\* NuevaCuota without the balancing of the final period: the last
\* installment is computed like the others
NuevaCuota_SinAjuste(pk, numero_cuota, plazo, saldo, cuota, interes, fecha_pago) ==
    LET capital == cuota - interes
        resta == saldo - capital
        nuevo_saldo == IF resta < 0 THEN 0 ELSE resta
    IN  [prestamo |-> pk, numero_cuota |-> numero_cuota,
         fecha_pago |-> fecha_pago, cuota |-> cuota,
         capital |-> capital, interes |-> interes, saldo |-> nuevo_saldo,
         pagado |-> FALSE, fecha_pago_real |-> NULL]

\* One pass of the loop body of generar_amortizacion after interes is
\* computed: the installment created for numero_cuota from the running
\* balance.
NuevaCuota(pk, numero_cuota, plazo, saldo, cuota, interes, fecha_pago) ==
    LET capital == IF numero_cuota = plazo THEN saldo ELSE cuota - interes
        cuota_ajustada == IF numero_cuota = plazo THEN capital + interes ELSE cuota
        resta == saldo - capital
        nuevo_saldo == IF resta < 0 THEN 0 ELSE resta
    IN  [prestamo |-> pk, numero_cuota |-> numero_cuota,
         fecha_pago |-> fecha_pago, cuota |-> cuota_ajustada,
         capital |-> capital, interes |-> interes, saldo |-> nuevo_saldo,
         pagado |-> FALSE, fecha_pago_real |-> NULL]

\* the installments numero_cuota..plazo created by the loop
RECURSIVE CrearCuotas(_, _, _, _, _, _)
\* Amortizacion.objects.create of installment a, then the rest of the loop
Crear(pk, p, cuota, a) ==
    {a} \cup CrearCuotas(pk, p, a.numero_cuota + 1, a.saldo, cuota, a.fecha_pago)

CrearCuotas(pk, p, numero_cuota, saldo, cuota, fecha) ==
    IF numero_cuota > p.plazo THEN {}
    ELSE Crear(pk, p, cuota,
               NuevaCuota(pk, numero_cuota, p.plazo, saldo, cuota,
                          Interes(saldo, p.tasa_interes_anual), AddMonth(fecha)))

\* the installments the loop of generar_amortizacion creates for loan pk
\* with fields p
NuevasCuotas(pk, p) ==
    CrearCuotas(pk, p, 1, p.monto,
                cuota_mensual(p.monto, p.tasa_interes_anual, p.plazo),
                p.fecha_inicio)

\* the installments of loan pk, and installment k of loan pk
CuotasDe(tabla, pk) == {a \in tabla : a.prestamo = pk}
CuotaNum(tabla, pk, k) == CHOOSE a \in CuotasDe(tabla, pk) : a.numero_cuota = k

(***************************************************************************)
(* Bounds and the values posted to the forms.                              *)
(***************************************************************************)
MaxPk    == 2
MaxPlazo == 2
MaxDias  == 1

RECURSIVE Dia(_)
Dia(k) == IF k = 0 THEN <<2024, 1, 30>> ELSE NextDay(Dia(k - 1))

Hoy0 == Dia(1)

\* the values posted to PrestamoForm: every combination of the good values,
\* and a good submission with one field replaced by each bad value
CIs == {<<"1", "2", "3", "4", "5">>,
        <<"6", "7", "8", "9", "0", " ", "l", "p">>}
Montos == {10000, 20000}
Tasas == {1200}
EnviosBuenos == [ci : CIs, monto : Montos, tasa_interes_anual : Tasas,
                 fecha_inicio : {Hoy0}, plazo : 1..MaxPlazo]
EnvioBase == [ci |-> <<"1", "2", "3", "4", "5">>, monto |-> 10000,
              tasa_interes_anual |-> 1200, fecha_inicio |-> Hoy0, plazo |-> 1]
Envios ==
    EnviosBuenos
        \cup {[EnvioBase EXCEPT !.ci = <<"1", "2">>],
              [EnvioBase EXCEPT !.monto = 9999],
              [EnvioBase EXCEPT !.tasa_interes_anual = 0],
              [EnvioBase EXCEPT !.fecha_inicio = <<2022, 12, 31>>],
              [EnvioBase EXCEPT !.plazo = 0],
              [EnvioBase EXCEPT !.plazo = 24]}

\* the dates posted to AmortizacionForm
FechasPago == {NULL} \cup {Dia(k) : k \in 0..(MaxDias + 2)}

(***************************************************************************)
(* Character strings as sequences of one-character strings.                *)
(***************************************************************************)
Digitos    == {"0", "1", "2", "3", "4", "5", "6", "7", "8", "9"}
Minusculas == <<"a", "b", "c", "d", "e", "f", "g", "h", "i", "j", "k", "l", "m",
                "n", "o", "p", "q", "r", "s", "t", "u", "v", "w", "x", "y", "z">>
Mayusculas == <<"A", "B", "C", "D", "E", "F", "G", "H", "I", "J", "K", "L", "M",
                "N", "O", "P", "Q", "R", "S", "T", "U", "V", "W", "X", "Y", "Z">>

EsMayuscula(c) == \E i \in 1..Len(Mayusculas) : Mayusculas[i] = c

\* str.upper()
Upper(s) ==
    [i \in 1..Len(s) |->
        IF \E j \in 1..Len(Minusculas) : Minusculas[j] = s[i]
        THEN Mayusculas[CHOOSE j \in 1..Len(Minusculas) : Minusculas[j] = s[i]]
        ELSE s[i]]

\* str.strip()
Strip(s) ==
    LET ns == {i \in 1..Len(s) : s[i] # " "}
    IN  IF ns = {} THEN <<>>
        ELSE SubSeq(s, CHOOSE i \in ns : \A j \in ns : i <= j,
                       CHOOSE i \in ns : \A j \in ns : j <= i)

\* re.match(r'^\d{5,10}(\s?[A-Z]{2})?$', ci)
FormatoCI(s) ==
    \E n \in 5..10 :
        /\ n <= Len(s)
        /\ \A i \in 1..n : s[i] \in Digitos
        /\ \/ Len(s) = n
           \/ Len(s) = n + 2 /\ EsMayuscula(s[n + 1]) /\ EsMayuscula(s[n + 2])
           \/ Len(s) = n + 3 /\ s[n + 1] = " "
                /\ EsMayuscula(s[n + 2]) /\ EsMayuscula(s[n + 3])

(***************************************************************************)
(* PrestamoForm.  A submission e gives ci, monto, tasa_interes_anual,      *)
(* fecha_inicio and plazo; pk is the pk of the instance being edited, 0    *)
(* for a new loan.                                                         *)
(***************************************************************************)
PKs(tabla) == DOMAIN tabla

\* a form error: the message and the installment number it names, if any
E(mensaje) == <<mensaje, 0>>

\* the value clean_ci returns
clean_ci(e) == Upper(Strip(e.ci))

\* clean_ci: the checks on the submitted text
ErroresFormatoCI(e) ==
    IF Strip(e.ci) = <<>> THEN {E("ci_obligatoria")}
    ELSE IF ~FormatoCI(clean_ci(e)) THEN {E("ci_formato")}
    ELSE {}

MontoMin == 10000
MontoMax == 1000000000

ErroresMonto(e) ==
    IF e.monto < MontoMin THEN {E("monto_minimo")}
    ELSE IF e.monto > MontoMax THEN {E("monto_maximo")}
    ELSE {}

TasaMax == 10000

ErroresTasa(e) ==
    IF e.tasa_interes_anual <= 0 THEN {E("tasa_minima")}
    ELSE IF e.tasa_interes_anual > TasaMax THEN {E("tasa_maxima")}
    ELSE {}

DiasAnio == 365

ErroresFechaInicio(e, today) ==
    IF Ordinal(e.fecha_inicio) < Ordinal(today) - DiasAnio THEN {E("fecha_antigua")}
    ELSE IF Ordinal(e.fecha_inicio) > Ordinal(today) + DiasAnio THEN {E("fecha_futura")}
    ELSE {}

PlazoMax == 360

ErroresPlazo(e) ==
    IF e.plazo < 1 THEN {E("plazo_minimo")}
    ELSE IF e.plazo > PlazoMax THEN {E("plazo_maximo")}
    ELSE {}

CuotaMin == 1000

\* PrestamoForm.clean: runs on the fields that passed their own checks
ErroresCuotaBaja(e) ==
    IF ErroresMonto(e) = {} /\ ErroresTasa(e) = {} /\ ErroresPlazo(e) = {}
       /\ cuota_mensual(e.monto, e.tasa_interes_anual, e.plazo) < CuotaMin
    THEN {E("cuota_baja")}
    ELSE {}

\* the row form.save() writes
FilaPrestamo(e) ==
    [ci |-> clean_ci(e), monto |-> e.monto,
     tasa_interes_anual |-> e.tasa_interes_anual,
     fecha_inicio |-> e.fecha_inicio, plazo |-> e.plazo]

\* FilaPrestamo tabulated over the submissions of the model (@@ has the
\* model checker compute the table once)
Filas == [e \in Envios |-> FilaPrestamo(e)] @@ <<>>

\* the errors of a submission that do not depend on the stored state,
\* tabulated over the submissions of the model
ErroresFijos ==
    [e \in Envios |->
        ErroresFormatoCI(e) \cup ErroresMonto(e) \cup ErroresTasa(e)
            \cup ErroresPlazo(e) \cup ErroresCuotaBaja(e)] @@ <<>>

\* ErroresCIDuplicada without the exclusion of the instance being edited
ErroresCIDuplicada_SinExcluir(tabla, pk, e) ==
    IF /\ ErroresFijos[e] \cap {E("ci_obligatoria"), E("ci_formato")} = {}
       /\ \E q \in PKs(tabla) : tabla[q].ci = Filas[e].ci
    THEN {E("ci_duplicada")}
    ELSE {}

\* clean_ci: another loan holds the cleaned ci (the instance being edited,
\* pk, is excluded; pk = 0 for a new loan)
ErroresCIDuplicada(tabla, pk, e) ==
    IF /\ ErroresFijos[e] \cap {E("ci_obligatoria"), E("ci_formato")} = {}
       /\ \E q \in PKs(tabla) : q # pk /\ tabla[q].ci = Filas[e].ci
    THEN {E("ci_duplicada")}
    ELSE {}

\* form.errors after is_valid()
ErroresPrestamo(tabla, pk, e, today) ==
    ErroresFijos[e] \cup ErroresCIDuplicada(tabla, pk, e)
        \cup ErroresFechaInicio(e, today)

(***************************************************************************)
(* AmortizacionForm on installment a: pagado and fecha are the submitted   *)
(* values of the two form fields, fecha = NULL for an empty date.          *)
(***************************************************************************)
\* Amortizacion.objects.filter(prestamo=..., numero_cuota=k - 1).first()
CuotaAnterior(tabla, a) ==
    {b \in CuotasDe(tabla, a.prestamo) : b.numero_cuota = a.numero_cuota - 1}

\* clean_fecha_pago_real without the check against the payment date of
\* the previous installment
ErroresFechaPagoReal_SinPrevia(tabla, loans, a, fecha, today) ==
    IF fecha = NULL THEN {}
    ELSE IF DateLess(today, fecha) THEN {E("fecha_futura")}
    ELSE IF DateLess(fecha, loans[a.prestamo].fecha_inicio)
         THEN {E("fecha_anterior_al_inicio")}
    ELSE {}

\* clean_fecha_pago_real without the check against date.today()
ErroresFechaPagoReal_SinFutura(tabla, loans, a, fecha, today) ==
    IF fecha = NULL THEN {}
    ELSE IF DateLess(fecha, loans[a.prestamo].fecha_inicio)
         THEN {E("fecha_anterior_al_inicio")}
    ELSE IF /\ a.numero_cuota > 1
            /\ \E b \in CuotaAnterior(tabla, a) :
                  /\ b.pagado
                  /\ b.fecha_pago_real # NULL
                  /\ DateLess(fecha, b.fecha_pago_real)
         THEN {E("fecha_anterior_a_cuota_previa")}
    ELSE {}

\* clean_fecha_pago_real: the error it raises, if any
ErroresFechaPagoReal(tabla, loans, a, fecha, today) ==
    IF fecha = NULL THEN {}
    ELSE IF DateLess(today, fecha) THEN {E("fecha_futura")}
    ELSE IF DateLess(fecha, loans[a.prestamo].fecha_inicio)
         THEN {E("fecha_anterior_al_inicio")}
    ELSE IF /\ a.numero_cuota > 1
            /\ \E b \in CuotaAnterior(tabla, a) :
                  /\ b.pagado
                  /\ b.fecha_pago_real # NULL
                  /\ DateLess(fecha, b.fecha_pago_real)
         THEN {E("fecha_anterior_a_cuota_previa")}
    ELSE {}

\* FechaLimpia if clean() saw the submitted date even when the field's own
\* validation failed
FechaLimpia_Enviada(tabla, loans, a, fecha, today) == fecha

\* cleaned_data.get('fecha_pago_real') as clean() reads it: a field that
\* failed its own validation is missing from cleaned_data
FechaLimpia(tabla, loans, a, fecha, today) ==
    IF ErroresFechaPagoReal(tabla, loans, a, fecha, today) = {} THEN fecha ELSE NULL

\* clean without the check of the previous installment
ErroresClean_SinAnterior(tabla, a, pagado, fecha_pago_real) ==
    IF pagado /\ fecha_pago_real = NULL THEN {E("falta_fecha_pago")}
    ELSE IF /\ ~pagado
            /\ a.pagado
            /\ \E b \in CuotasDe(tabla, a.prestamo) :
                  b.numero_cuota > a.numero_cuota /\ b.pagado
         THEN {E("cuotas_posteriores_pagadas")}
    ELSE {}

\* AmortizacionForm.clean: the error it raises, if any
ErroresClean(tabla, a, pagado, fecha_pago_real) ==
    IF pagado /\ fecha_pago_real = NULL THEN {E("falta_fecha_pago")}
    ELSE IF /\ pagado
            /\ a.numero_cuota > 1
            /\ \E b \in CuotaAnterior(tabla, a) : ~b.pagado
         THEN {<<"cuota_anterior_sin_pagar", a.numero_cuota - 1>>}
    ELSE IF /\ ~pagado
            /\ a.pagado
            /\ \E b \in CuotasDe(tabla, a.prestamo) :
                  b.numero_cuota > a.numero_cuota /\ b.pagado
         THEN {E("cuotas_posteriores_pagadas")}
    ELSE {}

\* form.errors after is_valid(): field errors and non-field errors
ErroresAmortizacion(tabla, loans, a, pagado, fecha, today) ==
    ErroresFechaPagoReal(tabla, loans, a, fecha, today)
        \cup ErroresClean(tabla, a, pagado,
                          FechaLimpia(tabla, loans, a, fecha, today))

\* the row saved if the form also settled the balance of a paid installment
FilaAmortizacion_Saldada(a, pagado, fecha) ==
    [a EXCEPT !.pagado = pagado,
              !.fecha_pago_real = IF pagado THEN fecha ELSE NULL,
              !.saldo = IF pagado THEN 0 ELSE @]

\* the row saved if clean() kept a date sent with pagado=False
FilaAmortizacion_ConFecha(a, pagado, fecha) ==
    [a EXCEPT !.pagado = pagado, !.fecha_pago_real = fecha]

\* the row form.save() writes: clean() drops a date sent with pagado=False
FilaAmortizacion(a, pagado, fecha) ==
    [a EXCEPT !.pagado = pagado,
              !.fecha_pago_real = IF pagado THEN fecha ELSE NULL]

(***************************************************************************)
(* The views, on POST.                                                     *)
(***************************************************************************)
\* NuevasCuotas tabulated over the loans the submissions of the model can
\* store
CuotasGeneradas ==
    [pk \in 1..MaxPk, p \in {Filas[e] : e \in {e \in Envios : ErroresFijos[e] = {}}} |->
        NuevasCuotas(pk, p)] @@ <<>>

\* generar_amortizacion patching the stored schedule: installments the loan
\* already has within the term are kept, only the missing ones are created
generar_amortizacion_Parche(tabla, pk, p) ==
    {a \in tabla : a.prestamo # pk \/ a.numero_cuota <= p.plazo}
        \cup {a \in CuotasGeneradas[pk, p] :
                 \A b \in tabla : b.prestamo = pk => b.numero_cuota # a.numero_cuota}

\* generar_amortizacion without the delete of the loan's installments
generar_amortizacion_SinBorrar(tabla, pk, p) ==
    tabla \cup CuotasGeneradas[pk, p]

\* the table after generar_amortizacion on loan pk with fields p:
\* the loan's installments deleted, then plazo installments created
generar_amortizacion(tabla, pk, p) ==
    {a \in tabla : a.prestamo # pk} \cup CuotasGeneradas[pk, p]

Resp(vista, errores) == [vista |-> vista, ok |-> errores = {}, errores |-> errores]

\* prestamo_crear storing the posted loan without asking form.is_valid()
prestamo_crear_SinValidar(e) ==
    LET errores == ErroresPrestamo(prestamos, 0, e, hoy)
        pk == ultimo_pk + 1
    IN  /\ resp' = Resp("prestamo_crear", errores)
        /\ ultimo_pk < MaxPk
        /\ ultimo_pk' = pk
        /\ prestamos' = [q \in PKs(prestamos) \cup {pk} |->
                            IF q = pk THEN Filas[e] ELSE prestamos[q]]
        /\ amortizaciones' =
               IF errores = {}
               THEN generar_amortizacion(amortizaciones, pk, Filas[e])
               ELSE amortizaciones
        /\ UNCHANGED <<hoy, gen, pendientes, lectura>>

prestamo_crear(e) ==
    LET errores == ErroresPrestamo(prestamos, 0, e, hoy)
        pk == ultimo_pk + 1
    IN  /\ resp' = Resp("prestamo_crear", errores)
        /\ IF errores = {}
           THEN /\ ultimo_pk < MaxPk
                /\ ultimo_pk' = pk
                /\ prestamos' = [q \in PKs(prestamos) \cup {pk} |->
                                    IF q = pk THEN Filas[e] ELSE prestamos[q]]
                /\ amortizaciones' =
                       generar_amortizacion(amortizaciones, pk, Filas[e])
           ELSE UNCHANGED <<prestamos, amortizaciones, ultimo_pk>>
        /\ UNCHANGED <<hoy, gen, pendientes, lectura>>

\* prestamo_editar saving the loan's fields without regenerating
prestamo_editar_SinRegenerar(pk, e) ==
    LET errores == ErroresPrestamo(prestamos, pk, e, hoy)
    IN  /\ pk \in PKs(prestamos)
        /\ resp' = Resp("prestamo_editar", errores)
        /\ IF errores = {}
           THEN prestamos' = [prestamos EXCEPT ![pk] = Filas[e]]
           ELSE UNCHANGED prestamos
        /\ UNCHANGED <<amortizaciones, hoy, ultimo_pk, gen, pendientes, lectura>>

prestamo_editar(pk, e) ==
    LET errores == ErroresPrestamo(prestamos, pk, e, hoy)
    IN  /\ pk \in PKs(prestamos)
        /\ resp' = Resp("prestamo_editar", errores)
        /\ IF errores = {}
           THEN /\ prestamos' = [prestamos EXCEPT ![pk] = Filas[e]]
                /\ amortizaciones' =
                       generar_amortizacion(amortizaciones, pk, Filas[e])
           ELSE UNCHANGED <<prestamos, amortizaciones>>
        /\ UNCHANGED <<hoy, ultimo_pk, gen, pendientes, lectura>>

\* prestamo_eliminar deleting the loan's row alone
prestamo_eliminar_SinCascada(pk) ==
    /\ pk \in PKs(prestamos)
    /\ prestamos' = [q \in PKs(prestamos) \ {pk} |-> prestamos[q]]
    /\ resp' = Resp("prestamo_eliminar", {})
    /\ UNCHANGED <<amortizaciones, hoy, ultimo_pk, gen, pendientes, lectura>>

\* prestamo.delete(): the installments go with the loan (on_delete=CASCADE)
prestamo_eliminar(pk) ==
    /\ pk \in PKs(prestamos)
    /\ prestamos' = [q \in PKs(prestamos) \ {pk} |-> prestamos[q]]
    /\ amortizaciones' = {a \in amortizaciones : a.prestamo # pk}
    /\ resp' = Resp("prestamo_eliminar", {})
    /\ UNCHANGED <<hoy, ultimo_pk, gen, pendientes, lectura>>

\* amortizacion_actualizar saving without asking form.is_valid()
amortizacion_actualizar_SinValidar(a, pagado, fecha) ==
    LET errores == ErroresAmortizacion(amortizaciones, prestamos, a, pagado, fecha, hoy)
    IN  /\ a \in amortizaciones
        /\ resp' = Resp("amortizacion_actualizar", errores)
        /\ amortizaciones' =
               (amortizaciones \ {a}) \cup {FilaAmortizacion(a, pagado, fecha)}
        /\ UNCHANGED <<prestamos, hoy, ultimo_pk, gen, pendientes, lectura>>

amortizacion_actualizar(a, pagado, fecha) ==
    LET errores == ErroresAmortizacion(amortizaciones, prestamos, a, pagado, fecha, hoy)
    IN  /\ a \in amortizaciones
        /\ resp' = Resp("amortizacion_actualizar", errores)
        /\ IF errores = {}
           THEN amortizaciones' =
                    (amortizaciones \ {a}) \cup {FilaAmortizacion(a, pagado, fecha)}
           ELSE UNCHANGED amortizaciones
        /\ UNCHANGED <<prestamos, hoy, ultimo_pk, gen, pendientes, lectura>>

\* midnight passes
PasarDia ==
    /\ DateLess(hoy, Dia(1 + MaxDias))
    /\ hoy' = NextDay(hoy)
    /\ UNCHANGED <<prestamos, amortizaciones, ultimo_pk, resp, gen, pendientes, lectura>>

\* Requests of one day on an empty database.
Init ==
    /\ pendientes = {}
    /\ lectura = LecturaNinguna
    /\ prestamos = <<>>
    /\ amortizaciones = {}
    /\ hoy = Hoy0
    /\ ultimo_pk = 0
    /\ resp = RespNinguna
    /\ gen = GenNinguno

Next ==
    \/ \E e \in Envios : prestamo_crear(e)
    \/ \E pk \in PKs(prestamos), e \in Envios : prestamo_editar(pk, e)
    \/ \E pk \in PKs(prestamos) : prestamo_eliminar(pk)
    \/ \E a \in amortizaciones, pagado \in BOOLEAN, fecha \in FechasPago :
          amortizacion_actualizar(a, pagado, fecha)

Spec == Init /\ [][Next]_vars

\* Payment updates over several days on two loans just created, each with
\* its freshly generated schedule; the two differ in ci and possibly in
\* term, and the second one may start one or two days after its creation
\* (PrestamoForm accepts a start date up to a year ahead).
InitPagos ==
    /\ pendientes = {}
    /\ lectura = LecturaNinguna
    /\ hoy = Hoy0
    /\ ultimo_pk = 2
    /\ resp = Resp("prestamo_crear", {})
    /\ gen = GenNinguno
    /\ \E e1 \in EnviosBuenos, e2 \in EnviosBuenos :
          /\ e1.ci = EnvioBase.ci
          /\ e2.ci # e1.ci
          /\ e1.monto = EnvioBase.monto
          /\ e2.monto = EnvioBase.monto
          /\ \E p2 \in {[Filas[e2] EXCEPT !.fecha_inicio = Dia(k)] : k \in 1..3} :
                /\ prestamos = <<Filas[e1], p2>>
                /\ amortizaciones =
                       generar_amortizacion({}, 1, Filas[e1]) \cup NuevasCuotas(2, p2)

NextPagos ==
    \/ \E a \in amortizaciones, pagado \in BOOLEAN, fecha \in FechasPago :
          amortizacion_actualizar(a, pagado, fecha)
    \/ PasarDia

SpecPagos == InitPagos /\ [][NextPagos]_vars

(***************************************************************************)
(* The schedule generator run period by period on one new loan.            *)
(***************************************************************************)
MaxPlazoGen == 67
GenMontos   == {12345, 100000}
GenTasas    == {1200, 1250, 10000}
GenFecha    == <<2024, 1, 31>>

\* the loan of 12000.00 at 12.00 % over 12 months from 2024-01-15
GenEscenario ==
    [monto |-> 1200000, tasa_interes_anual |-> 1200,
     fecha_inicio |-> <<2024, 1, 15>>, plazo |-> 12]

\* the terms of the loans whose generation is followed step by step
GenCasos ==
    {[monto |-> monto, tasa_interes_anual |-> tasa,
      fecha_inicio |-> GenFecha, plazo |-> plazo] :
        monto \in GenMontos, tasa \in GenTasas, plazo \in 1..MaxPlazoGen}
        \cup {GenEscenario}

\* Prestamo.save() of a new loan that PrestamoForm accepted has stored the
\* row and entered generar_amortizacion: nothing to delete, the locals are set
InitGen ==
    /\ pendientes = {}
    /\ lectura = LecturaNinguna
    /\ hoy = GenFecha
    /\ resp = RespNinguna
    /\ ultimo_pk = 1
    /\ amortizaciones = {}
    /\ \E c \in GenCasos :
          /\ cuota_mensual(c.monto, c.tasa_interes_anual, c.plazo) >= CuotaMin
          /\ prestamos = (1 :> [ci |-> "12345", monto |-> c.monto,
                                tasa_interes_anual |-> c.tasa_interes_anual,
                                fecha_inicio |-> c.fecha_inicio,
                                plazo |-> c.plazo])
          /\ gen = [pk |-> 1, numero_cuota |-> 1, saldo |-> c.monto,
                    cuota |-> cuota_mensual(c.monto, c.tasa_interes_anual,
                                            c.plazo),
                    fecha_pago |-> c.fecha_inicio]

\* GenPaso storing the fixed payment in every period, the last included
GenPaso_CuotaFija ==
    /\ gen # GenNinguno
    /\ gen.numero_cuota >= 1
    /\ gen.numero_cuota <= prestamos[gen.pk].plazo
    /\ \E a \in {NuevaCuota(gen.pk, gen.numero_cuota, prestamos[gen.pk].plazo,
                            gen.saldo, gen.cuota,
                            Interes(gen.saldo, prestamos[gen.pk].tasa_interes_anual),
                            AddMonth(gen.fecha_pago))} :
          /\ amortizaciones' = amortizaciones \cup {[a EXCEPT !.cuota = gen.cuota]}
          /\ gen' = [gen EXCEPT !.numero_cuota = @ + 1, !.saldo = a.saldo,
                                !.fecha_pago = a.fecha_pago]
    /\ UNCHANGED <<prestamos, hoy, ultimo_pk, resp, pendientes, lectura>>

\* one iteration of "for numero_cuota in range(1, self.plazo + 1)"
GenPaso ==
    /\ gen # GenNinguno
    /\ gen.numero_cuota >= 1
    /\ gen.numero_cuota <= prestamos[gen.pk].plazo
    /\ \E a \in {NuevaCuota(gen.pk, gen.numero_cuota, prestamos[gen.pk].plazo,
                            gen.saldo, gen.cuota,
                            Interes(gen.saldo, prestamos[gen.pk].tasa_interes_anual),
                            AddMonth(gen.fecha_pago))} :
          /\ amortizaciones' = amortizaciones \cup {a}
          /\ gen' = [gen EXCEPT !.numero_cuota = @ + 1, !.saldo = a.saldo,
                                !.fecha_pago = a.fecha_pago]
    /\ UNCHANGED <<prestamos, hoy, ultimo_pk, resp, pendientes, lectura>>

NextGen == GenPaso

SpecGen == InitGen /\ [][NextGen]_vars

\* the loop of generar_amortizacion has run to its end
GenHecho == gen # GenNinguno /\ gen.numero_cuota > prestamos[gen.pk].plazo


(***************************************************************************)
(* generar_amortizacion statement by statement, each statement committed   *)
(* on its own (no transaction is opened), with the failures that can end   *)
(* the request between two statements.                                     *)
(***************************************************************************)
MaxPlazoFalla == 6

\* the loan's row is stored (a new loan by Prestamo.save, new terms by
\* form.save() in prestamo_editar) and generar_amortizacion is entered;
\* viejo is the term the loan had before an edit, 0 for a new loan
InitFalla ==
    /\ pendientes = {}
    /\ lectura = LecturaNinguna
    /\ hoy = GenFecha
    /\ resp = RespNinguna
    /\ ultimo_pk = 1
    /\ \E monto \in GenMontos, tasa \in GenTasas,
          plazo \in 1..MaxPlazoFalla, viejo \in 0..MaxPlazoFalla :
          /\ cuota_mensual(monto, tasa, plazo) >= CuotaMin
          /\ prestamos = (1 :> [ci |-> "12345", monto |-> monto,
                                tasa_interes_anual |-> tasa,
                                fecha_inicio |-> GenFecha, plazo |-> plazo])
          /\ amortizaciones =
                 IF viejo = 0 THEN {}
                 ELSE NuevasCuotas(1, [monto |-> monto, tasa_interes_anual |-> tasa,
                                       fecha_inicio |-> GenFecha, plazo |-> viejo])
          /\ gen = [pk |-> 1, numero_cuota |-> 0, saldo |-> monto,
                    cuota |-> cuota_mensual(monto, tasa, plazo),
                    fecha_pago |-> GenFecha]

\* self.amortizaciones.all().delete()
GenBorrar ==
    /\ gen.pk # 0
    /\ gen.numero_cuota = 0
    /\ amortizaciones' = {a \in amortizaciones : a.prestamo # gen.pk}
    /\ gen' = [gen EXCEPT !.numero_cuota = 1]
    /\ UNCHANGED <<prestamos, hoy, ultimo_pk, resp, pendientes, lectura>>

\* the request ends in an exception (database error, lost connection,
\* killed worker) before generar_amortizacion has run to its end
GenFalla ==
    /\ gen.pk # 0
    /\ gen.numero_cuota <= prestamos[gen.pk].plazo
    /\ gen' = GenNinguno
    /\ resp' = Resp("generar_amortizacion", {E("excepcion")})
    /\ UNCHANGED <<prestamos, amortizaciones, hoy, ultimo_pk, pendientes, lectura>>

NextFalla ==
    \/ GenBorrar
    \/ GenPaso
    \/ GenFalla

SpecFalla == InitFalla /\ [][NextFalla]_vars

(***************************************************************************)
(* Properties.                                                             *)
(***************************************************************************)
\* the last request was a payment update
UltimaEsPago == resp.vista = "amortizacion_actualizar"

\* some installment of a's loan after a is paid
HayPosteriorPagada(tabla, a) ==
    \E b \in CuotasDe(tabla, a.prestamo) :
        b.numero_cuota > a.numero_cuota /\ b.pagado

\* C1: starting from freshly generated schedules, after any sequence of
\* payment updates (accepted or rejected), if an installment is paid then
\* every earlier installment of its loan is paid.
C1_PrefijoPagado ==
    \A a \in amortizaciones, b \in amortizaciones :
        (a.prestamo = b.prestamo /\ b.numero_cuota < a.numero_cuota /\ a.pagado)
            => b.pagado

\* a second installment is paid and the last payment update was rejected
C1_Witness ==
    /\ UltimaEsPago
    /\ ~resp.ok
    /\ \E a \in amortizaciones : a.numero_cuota >= 2 /\ a.pagado

\* sum of capital over installments lo..hi of loan pk
RECURSIVE SumaCapital(_, _, _, _)
SumaCapital(tabla, pk, lo, hi) ==
    IF lo > hi THEN 0
    ELSE IF lo = hi THEN CuotaNum(tabla, pk, lo).capital
    ELSE LET mid == (lo + hi) \div 2
         IN  SumaCapital(tabla, pk, lo, mid) + SumaCapital(tabla, pk, mid + 1, hi)

\* C2: for every valid loan the capital portions of the schedule produced
\* by generar_amortizacion sum to the principal exactly.
C2_SumaCapitalIgualMonto ==
    GenHecho =>
        SumaCapital(amortizaciones, gen.pk, 1, prestamos[gen.pk].plazo)
            = prestamos[gen.pk].monto

\* saldo after installment k, the principal for k = 0
SaldoTras(tabla, pk, k) ==
    IF k = 0 THEN prestamos[pk].monto ELSE CuotaNum(tabla, pk, k).saldo

\* C3: in the generated schedule the balance never increases from one
\* period to the next (starting from the principal) and is exactly zero
\* after the final period.
C3_SaldoNoCreciente ==
    GenHecho =>
        /\ \A k \in 1..prestamos[gen.pk].plazo :
              SaldoTras(amortizaciones, gen.pk, k - 1)
                  >= SaldoTras(amortizaciones, gen.pk, k)
        /\ SaldoTras(amortizaciones, gen.pk, prestamos[gen.pk].plazo) = 0

\* a finished schedule of a year or more in which rounding made the
\* balanced final payment differ from the fixed payment
C3_Witness ==
    /\ GenHecho
    /\ prestamos[gen.pk].plazo >= 12
    /\ SaldoTras(amortizaciones, gen.pk, prestamos[gen.pk].plazo) = 0
    /\ CuotaNum(amortizaciones, gen.pk, prestamos[gen.pk].plazo).cuota # gen.cuota

\* C4: after any sequence of payment updates, for two paid installments
\* j < k of a loan the actual payment date of j is not later than that of k.
C4_FechasNoDecrecientes ==
    \A a \in amortizaciones, b \in amortizaciones :
        (/\ a.prestamo = b.prestamo
         /\ a.numero_cuota < b.numero_cuota
         /\ a.pagado /\ b.pagado
         /\ a.fecha_pago_real # NULL /\ b.fecha_pago_real # NULL)
            => ~DateLess(b.fecha_pago_real, a.fecha_pago_real)

\* C5: in every state reached by schedule generation and payment updates,
\* an installment is paid if and only if its actual payment date is set.
C5_PagadoSiiFecha ==
    \A a \in amortizaciones : a.pagado <=> (a.fecha_pago_real # NULL)

\* a payment update was accepted; some installment is paid with its date
\* and another is unpaid
C5_Witness ==
    /\ UltimaEsPago
    /\ resp.ok
    /\ \E a \in amortizaciones : a.pagado /\ a.fecha_pago_real # NULL
    /\ \E a \in amortizaciones : ~a.pagado

\* C6: after any sequence of loan creations, edits (also of the term) and
\* payment updates, every stored loan has exactly plazo installments,
\* numbered 1..plazo with no gaps or duplicates.
C6_CuotasCompletas ==
    \A pk \in PKs(prestamos) :
        /\ Cardinality(CuotasDe(amortizaciones, pk)) = prestamos[pk].plazo
        /\ {a.numero_cuota : a \in CuotasDe(amortizaciones, pk)}
               = 1..prestamos[pk].plazo

\* an edit was accepted and two stored loans have different terms
C6_Witness ==
    /\ resp.vista = "prestamo_editar"
    /\ resp.ok
    /\ \E pk \in PKs(prestamos), qk \in PKs(prestamos) :
          /\ prestamos[pk].plazo # prestamos[qk].plazo
          /\ Cardinality(CuotasDe(amortizaciones, pk)) = prestamos[pk].plazo

\* C7: after a successful edit through prestamo_editar, the loan's previous
\* installments are gone and the loan holds the schedule computed from its
\* current fields, every installment unpaid with no actual payment date.
C7_EdicionRegenera ==
    [][\A pk \in PKs(prestamos), e \in Envios :
          (/\ resp'.vista = "prestamo_editar"
           /\ resp'.ok
           /\ prestamos'[pk] = Filas[e]
           /\ prestamo_editar(pk, e)) =>
              /\ CuotasDe(amortizaciones', pk) = CuotasGeneradas[pk, prestamos'[pk]]
              /\ \A a \in CuotasDe(amortizaciones', pk) :
                    ~a.pagado /\ a.fecha_pago_real = NULL]_vars

\* an edit was accepted, its loan (the one with every installment unpaid)
\* stands next to a loan with a paid installment
C7_Witness ==
    /\ resp.vista = "prestamo_editar"
    /\ resp.ok
    /\ \E pk \in PKs(prestamos) : \A a \in CuotasDe(amortizaciones, pk) : ~a.pagado
    /\ \E a \in amortizaciones : a.pagado

\* a is an installment after the first whose previous installment is unpaid
AnteriorSinPagar(a) ==
    /\ a.numero_cuota > 1
    /\ \E b \in CuotaAnterior(amortizaciones, a) : ~b.pagado

\* C8 as stated: a mark-paid update on installment k > 1 whose predecessor
\* is unpaid is always rejected, and the error reported is the one of the
\* unpaid prior installment, naming k - 1, whatever date was submitted.
C8_SiempreCuotaAnterior ==
    [][\A a \in amortizaciones, fecha \in FechasPago :
          (AnteriorSinPagar(a) /\ amortizacion_actualizar(a, TRUE, fecha)) =>
              /\ ~resp'.ok
              /\ <<"cuota_anterior_sin_pagar", a.numero_cuota - 1>> \in resp'.errores]_vars

\* C8 amended: such an update is always rejected and changes no
\* installment; when the submitted date passes its own validation (set, not
\* after today, not before the loan's start) the only error is the one of
\* the unpaid prior installment, naming k - 1; otherwise the errors are
\* the date's own error, if any, and the missing-date error, and the prior
\* installment is not reported.
C8_RechazoCuotaAnterior ==
    [][\A a \in amortizaciones, fecha \in FechasPago :
          (AnteriorSinPagar(a) /\ amortizacion_actualizar(a, TRUE, fecha)) =>
              /\ ~resp'.ok
              /\ amortizaciones' = amortizaciones
              /\ IF /\ fecha # NULL
                    /\ ~DateLess(hoy, fecha)
                    /\ ~DateLess(fecha, prestamos[a.prestamo].fecha_inicio)
                 THEN resp'.errores =
                          {<<"cuota_anterior_sin_pagar", a.numero_cuota - 1>>}
                 ELSE /\ E("falta_fecha_pago") \in resp'.errores
                      /\ \A err \in resp'.errores :
                            err[1] # "cuota_anterior_sin_pagar"]_vars

\* a payment update was rejected for the unpaid first installment
C8_Witness ==
    /\ UltimaEsPago
    /\ ~resp.ok
    /\ resp.errores = {<<"cuota_anterior_sin_pagar", 1>>}
    /\ \E a \in amortizaciones : a.numero_cuota = 1 /\ ~a.pagado

\* C9: a mark-unpaid update on installment k while a later installment of
\* the loan is paid is always rejected with the error of the later paid
\* installments, and installment k stays paid.
C9_DesmarcarConPosteriores ==
    [][\A a \in amortizaciones, fecha \in FechasPago :
          (/\ HayPosteriorPagada(amortizaciones, a)
           /\ amortizacion_actualizar(a, FALSE, fecha)) =>
              /\ ~resp'.ok
              /\ E("cuotas_posteriores_pagadas") \in resp'.errores
              /\ \E c \in CuotasDe(amortizaciones', a.prestamo) :
                    c.numero_cuota = a.numero_cuota /\ c.pagado]_vars

\* a mark-unpaid update was rejected for later paid installments, and a
\* loan has its first two installments paid
C9_Witness ==
    /\ UltimaEsPago
    /\ E("cuotas_posteriores_pagadas") \in resp.errores
    /\ \E a \in amortizaciones :
          a.numero_cuota = 1 /\ a.pagado /\ HayPosteriorPagada(amortizaciones, a)

\* C10: a mark-unpaid update on installment k with no later installment of
\* the loan paid succeeds and leaves k unpaid with no actual payment date,
\* whatever date was submitted with it.
C10_DesmarcarAceptado ==
    [][\A a \in amortizaciones, fecha \in FechasPago :
          (/\ ~HayPosteriorPagada(amortizaciones, a)
           /\ amortizacion_actualizar(a, FALSE, fecha)) =>
              /\ resp'.ok
              /\ \A c \in CuotasDe(amortizaciones', a.prestamo) :
                    c.numero_cuota = a.numero_cuota =>
                        ~c.pagado /\ c.fecha_pago_real = NULL]_vars

\* C11: a rejected operation (a payment update, a loan creation or a loan
\* edit that fails validation) leaves every stored loan and every stored
\* installment exactly as it was.
C11_RechazoSinCambios ==
    [][~resp'.ok =>
          /\ prestamos' = prestamos
          /\ amortizaciones' = amortizaciones]_vars

\* a loan edit was rejected while a paid installment is stored
C11_Witness ==
    /\ resp.vista = "prestamo_editar"
    /\ ~resp.ok
    /\ \E a \in amortizaciones : a.pagado

\* C12: schedule generation is atomic: when no generation is running, also
\* after one failed past the delete or part of the inserts, every stored
\* loan has its complete schedule 1..plazo.
C12_GeneracionAtomica ==
    gen = GenNinguno =>
        \A pk \in PKs(prestamos) :
            {a.numero_cuota : a \in CuotasDe(amortizaciones, pk)}
                = 1..prestamos[pk].plazo

\* C13: in the generated schedule every installment's payment equals its
\* capital plus its interest; before the last period the payment is the
\* fixed installment, in the last period it is the remaining balance plus
\* the interest.
C13_CuotaEsCapitalMasInteres ==
    GenHecho =>
        \A a \in CuotasDe(amortizaciones, gen.pk) :
            /\ a.cuota = a.capital + a.interes
            /\ a.numero_cuota < prestamos[gen.pk].plazo => a.cuota = gen.cuota
            /\ a.numero_cuota = prestamos[gen.pk].plazo =>
                  a.cuota = SaldoTras(amortizaciones, gen.pk, a.numero_cuota - 1)
                                + a.interes

\* a finished schedule of several periods whose last payment, the remaining
\* balance plus interest, is below the fixed installment
C13_Witness ==
    /\ GenHecho
    /\ prestamos[gen.pk].plazo > 1
    /\ \E a \in CuotasDe(amortizaciones, gen.pk) :
          /\ a.numero_cuota = prestamos[gen.pk].plazo
          /\ a.capital > 0
          /\ a.cuota < gen.cuota

\* the fields generar_amortizacion reads are the same in loans p and q
MismosTerminos(p, q) ==
    /\ p.monto = q.monto
    /\ p.tasa_interes_anual = q.tasa_interes_anual
    /\ p.fecha_inicio = q.fecha_inicio
    /\ p.plazo = q.plazo

\* C14: regenerating the schedule of a loan whose amount, rate, start date
\* and term did not change since its schedule was generated yields the
\* same installments again (numbers, due dates, payment, capital, interest,
\* balance), all unpaid with no actual date, and leaves none of the
\* earlier installments behind.
C14_RegeneracionIdempotente ==
    [][\A pk \in PKs(prestamos), e \in Envios :
          (/\ resp'.vista = "prestamo_editar"
           /\ resp'.ok
           /\ prestamos'[pk] = Filas[e]
           /\ MismosTerminos(prestamos[pk], Filas[e])
           /\ prestamo_editar(pk, e)) =>
              CuotasDe(amortizaciones', pk) =
                  {[a EXCEPT !.pagado = FALSE, !.fecha_pago_real = NULL] :
                      a \in CuotasDe(amortizaciones, pk)}]_vars

\* an edit was accepted on the only stored loan, the second one created,
\* and its schedule is the one generated from its terms
C14_Witness ==
    /\ resp.vista = "prestamo_editar"
    /\ resp.ok
    /\ PKs(prestamos) = {2}
    /\ CuotasDe(amortizaciones, 2) = CuotasGeneradas[2, prestamos[2]]

\* the generation of the loan GenEscenario has run to its end
EscenarioHecho ==
    /\ GenHecho
    /\ MismosTerminos(prestamos[gen.pk], GenEscenario)

\* the monthly rate of an annual rate of tasa hundredths of a percent is
\* exactly 0.01
TasaEsUnCentesimo(tasa) ==
    \E tm \in {tasa_mensual(tasa)} : tm.exp >= 2 /\ tm.coef = BigPow10(tm.exp - 2)

\* installment 12 of the scenario takes what was left after installment 11
\* and leaves nothing
EscenarioUltima ==
    /\ CuotaNum(amortizaciones, gen.pk, 12).capital
           = CuotaNum(amortizaciones, gen.pk, 11).saldo
    /\ CuotaNum(amortizaciones, gen.pk, 12).saldo = 0

\* C15 as stated: for the loan of 12000.00 at 12.00 % over 12 months from
\* 2024-01-15 the periodic rate is 0.01, the fixed payment is 1065.03,
\* installment 1 has interest 120.00, capital 945.03 and balance 11054.97,
\* and installment 12 has capital equal to the balance after installment 11
\* and balance 0.00.
C15_Escenario ==
    EscenarioHecho =>
        /\ TasaEsUnCentesimo(prestamos[gen.pk].tasa_interes_anual)
        /\ gen.cuota = 106503
        /\ CuotaNum(amortizaciones, gen.pk, 1).interes = 12000
        /\ CuotaNum(amortizaciones, gen.pk, 1).capital = 94503
        /\ CuotaNum(amortizaciones, gen.pk, 1).saldo = 1105497
        /\ EscenarioUltima

\* C15: for the loan of 12000.00 at 12.00 % over 12 months from 2024-01-15
\* the periodic rate is 0.01, the fixed payment is 1066.19, installment 1
\* has payment 1066.19, interest 120.00, capital 946.19 and balance
\* 11053.81, and installment 12 has capital equal to the balance after
\* installment 11 and balance 0.00.
C15_EscenarioCalculado ==
    EscenarioHecho =>
        /\ TasaEsUnCentesimo(prestamos[gen.pk].tasa_interes_anual)
        /\ gen.cuota = 106619
        /\ CuotaNum(amortizaciones, gen.pk, 1).cuota = 106619
        /\ CuotaNum(amortizaciones, gen.pk, 1).interes = 12000
        /\ CuotaNum(amortizaciones, gen.pk, 1).capital = 94619
        /\ CuotaNum(amortizaciones, gen.pk, 1).saldo = 1105381
        /\ EscenarioUltima

\* the twelve installments of the scenario loan are stored
C15_Witness ==
    /\ EscenarioHecho
    /\ Cardinality(CuotasDe(amortizaciones, gen.pk)) = 12

\* a loan other than pk holds the ci that submission e cleans to
CIDeOtro(pk, e) ==
    \E q \in PKs(prestamos) : q # pk /\ prestamos[q].ci = Filas[e].ci

\* the answer of the step reports the duplicate ci and nothing is stored
RechazoCIDuplicada ==
    /\ ~resp'.ok
    /\ E("ci_duplicada") \in resp'.errores
    /\ prestamos' = prestamos

\* C16: no two stored loans ever have the same ci: a creation with, or an
\* edit to, a ci that a different loan holds is rejected with the duplicate
\* error and stores nothing, while an otherwise valid edit that keeps the
\* loan's own ci is accepted.  (Each case is written contrapositively: no
\* step with another outcome is a step of the view.)
C16_CIUnica ==
    /\ [](\A p, q \in PKs(prestamos) :
             p # q => prestamos[p].ci # prestamos[q].ci)
    /\ [][/\ resp'.vista = "prestamo_crear" =>
                \A e \in Envios :
                    CIDeOtro(0, e) /\ ~RechazoCIDuplicada => ~prestamo_crear(e)
          /\ resp'.vista = "prestamo_editar" =>
                \A e \in Envios, pk \in PKs(prestamos) :
                    /\ CIDeOtro(pk, e) /\ ~RechazoCIDuplicada =>
                           ~prestamo_editar(pk, e)
                    /\ (/\ ~resp'.ok
                        /\ e \in EnviosBuenos
                        /\ Filas[e].ci = prestamos[pk].ci) =>
                           ~prestamo_editar(pk, e)]_vars

\* with two loans stored, an edit was rejected for the ci of the other one
C16_Witness ==
    /\ resp.vista = "prestamo_editar"
    /\ E("ci_duplicada") \in resp.errores
    /\ Cardinality(PKs(prestamos)) = 2

\* C17: every stored installment belongs to a stored loan, and a step
\* of prestamo_eliminar removes one loan with all of its installments and
\* leaves every other loan and its installments, payment state included,
\* as they were.
C17_BorradoEnCascada ==
    /\ [](\A a \in amortizaciones : a.prestamo \in PKs(prestamos))
    /\ [][resp'.vista = "prestamo_eliminar" =>
             \E pk \in PKs(prestamos) :
                 /\ PKs(prestamos') = PKs(prestamos) \ {pk}
                 /\ CuotasDe(amortizaciones', pk) = {}
                 /\ \A q \in PKs(prestamos') :
                       /\ prestamos'[q] = prestamos[q]
                       /\ CuotasDe(amortizaciones', q)
                              = CuotasDe(amortizaciones, q)]_vars

\* a loan was deleted and the loan that remains has a paid installment
C17_Witness ==
    /\ resp.vista = "prestamo_eliminar"
    /\ PKs(prestamos) # {}
    /\ \E a \in amortizaciones : a.pagado

(***************************************************************************)
(* Payment updates of one loan served by concurrent workers.  A request    *)
(* loads its installment and validates the form against the rows stored at *)
(* that moment; form.save() writes the installment later, and other        *)
(* requests run in between: the view opens no transaction and takes no     *)
(* lock.                                                                   *)
(***************************************************************************)
MaxPeticiones == 2

\* the dates posted by the concurrent requests
FechasConcurrentes == {NULL, Hoy0}

InitConcurrente ==
    /\ pendientes = {}
    /\ lectura = LecturaNinguna
    /\ hoy = Hoy0
    /\ ultimo_pk = 1
    /\ resp = Resp("prestamo_crear", {})
    /\ gen = GenNinguno
    /\ \E e \in EnviosBuenos :
          /\ e.ci = EnvioBase.ci
          /\ e.monto = EnvioBase.monto
          /\ prestamos = <<Filas[e]>>
          /\ amortizaciones = generar_amortizacion({}, 1, Filas[e])

\* get_object_or_404 and form.is_valid(): the installment is loaded and the
\* submission validated against the stored rows; a valid form waits for its
\* save, an invalid one is answered at once
Validar(a, pagado, fecha) ==
    LET errores == ErroresAmortizacion(amortizaciones, prestamos, a, pagado, fecha, hoy)
    IN  /\ a \in amortizaciones
        /\ Cardinality(pendientes) < MaxPeticiones
        /\ IF errores = {}
           THEN /\ pendientes' = pendientes \cup
                       {[instancia |-> a, pagado |-> pagado, fecha |-> fecha]}
                /\ UNCHANGED resp
           ELSE /\ resp' = Resp("amortizacion_actualizar", errores)
                /\ UNCHANGED pendientes
        /\ UNCHANGED <<prestamos, amortizaciones, hoy, ultimo_pk, gen, lectura>>

\* form.save() of a validated request: the loaded instance is written with
\* the cleaned pagado and fecha_pago_real over the stored row
Guardar(r) ==
    /\ r \in pendientes
    /\ amortizaciones' =
           {b \in amortizaciones :
               b.prestamo # r.instancia.prestamo
                   \/ b.numero_cuota # r.instancia.numero_cuota}
               \cup {FilaAmortizacion(r.instancia, r.pagado, r.fecha)}
    /\ pendientes' = pendientes \ {r}
    /\ resp' = Resp("amortizacion_actualizar", {})
    /\ UNCHANGED <<prestamos, hoy, ultimo_pk, gen, lectura>>

NextConcurrente ==
    \/ \E a \in amortizaciones, pagado \in BOOLEAN, fecha \in FechasConcurrentes :
          Validar(a, pagado, fecha)
    \/ \E r \in pendientes : Guardar(r)

SpecConcurrente == InitConcurrente /\ [][NextConcurrente]_vars

\* C18: when payment updates of one loan run concurrently, each validating
\* against the stored installments and writing its own installment later,
\* every paid installment still has all the earlier installments of its
\* loan paid, in every reachable state.
C18_PrefijoPagadoConcurrente ==
    \A a \in amortizaciones :
        a.pagado =>
            \A k \in 1..(a.numero_cuota - 1) :
                CuotaNum(amortizaciones, a.prestamo, k).pagado

\* C19: when the schedule of a loan is complete, the due date of every
\* installment k is the start date advanced by k calendar months in one
\* step: the month k months later, with the day of the start date, or the
\* last day of that month where it has no such day.
C19_VencimientoEnUnPaso ==
    LET s == prestamos[gen.pk].fecha_inicio
        Anio(k) == s[1] + (s[2] - 1 + k) \div 12
        Mes(k) == ((s[2] - 1 + k) % 12) + 1
    IN  GenHecho =>
            \A a \in CuotasDe(amortizaciones, gen.pk) :
                a.fecha_pago =
                    <<Anio(a.numero_cuota), Mes(a.numero_cuota),
                      Min(s[3], DaysInMonth(Anio(a.numero_cuota),
                                            Mes(a.numero_cuota)))>>

\* the actual payment date of every paid installment lies between the start
\* date of its loan and today
FechaRealEntreInicioYHoy ==
    \A a \in amortizaciones :
        a.pagado =>
            /\ a.fecha_pago_real # NULL
            /\ ~DateLess(a.fecha_pago_real, prestamos[a.prestamo].fecha_inicio)
            /\ ~DateLess(hoy, a.fecha_pago_real)

\* C20 as stated: with today only moving forward, every paid installment's
\* actual payment date is between the loan's start date and today; a
\* mark-paid with a date after today is rejected with the future-date error
\* and one with a date before the loan's start date is rejected with the
\* error of a payment before the loan.
C20_FechaRealValida ==
    /\ []FechaRealEntreInicioYHoy
    /\ [][\A a \in amortizaciones, fecha \in FechasPago \ {NULL} :
             /\ (/\ DateLess(hoy, fecha)
                 /\ amortizacion_actualizar(a, TRUE, fecha)) =>
                    ~resp'.ok /\ E("fecha_futura") \in resp'.errores
             /\ (/\ DateLess(fecha, prestamos[a.prestamo].fecha_inicio)
                 /\ amortizacion_actualizar(a, TRUE, fecha)) =>
                    ~resp'.ok /\ E("fecha_anterior_al_inicio") \in resp'.errores]_vars

\* C20 amended: the invariant as stated; a mark-paid with a date after
\* today is rejected with the future-date error, with no error about the
\* loan's start even when the date is before it, and a mark-paid with a date
\* not after today and before the loan's start date is rejected with the
\* error of a payment before the loan; neither changes an installment.
C20_FechaRealValidada ==
    /\ []FechaRealEntreInicioYHoy
    /\ [][\A a \in amortizaciones, fecha \in FechasPago \ {NULL} :
             (/\ DateLess(hoy, fecha)
                    \/ DateLess(fecha, prestamos[a.prestamo].fecha_inicio)
              /\ amortizacion_actualizar(a, TRUE, fecha)) =>
                 /\ ~resp'.ok
                 /\ amortizaciones' = amortizaciones
                 /\ IF DateLess(hoy, fecha)
                    THEN /\ E("fecha_futura") \in resp'.errores
                         /\ E("fecha_anterior_al_inicio") \notin resp'.errores
                    ELSE E("fecha_anterior_al_inicio") \in resp'.errores]_vars

\* a payment update with a date after today was rejected while a loan has
\* not started yet and an installment is paid
C20_Witness ==
    /\ UltimaEsPago
    /\ E("fecha_futura") \in resp.errores
    /\ \E pk \in PKs(prestamos) : DateLess(hoy, prestamos[pk].fecha_inicio)
    /\ \E a \in amortizaciones : a.pagado

\* installment k - 1 of a's loan is paid with an actual date later than fecha
PreviaPagadaDespuesDe(a, fecha) ==
    \E b \in CuotaAnterior(amortizaciones, a) :
        /\ b.pagado
        /\ b.fecha_pago_real # NULL
        /\ DateLess(fecha, b.fecha_pago_real)

\* C21: a mark-paid update on installment k > 1 with a date earlier than
\* the actual payment date of the paid installment k - 1 is always rejected
\* and changes no installment; when the date is not before the loan's
\* start, the error reported is the one of the date preceding the prior
\* installment's payment.
C21_RechazoFechaAnteriorAPrevia ==
    [][\A a \in amortizaciones, fecha \in FechasPago \ {NULL} :
          (/\ a.numero_cuota > 1
           /\ PreviaPagadaDespuesDe(a, fecha)
           /\ amortizacion_actualizar(a, TRUE, fecha)) =>
              /\ ~resp'.ok
              /\ amortizaciones' = amortizaciones
              /\ ~DateLess(fecha, prestamos[a.prestamo].fecha_inicio) =>
                     E("fecha_anterior_a_cuota_previa") \in resp'.errores]_vars

\* a payment update was rejected for a date before the payment of the
\* previous installment, and a second installment is still unpaid after a
\* paid first one
C21_Witness ==
    /\ UltimaEsPago
    /\ E("fecha_anterior_a_cuota_previa") \in resp.errores
    /\ \E a \in amortizaciones :
          /\ a.numero_cuota = 2
          /\ ~a.pagado
          /\ \E b \in CuotaAnterior(amortizaciones, a) : b.pagado

(***************************************************************************)
(* Amortizacion.dias_mora and Amortizacion.estado, read when an            *)
(* installment is displayed, over the weeks in which the installments of a *)
(* loan fall due.                                                          *)
(***************************************************************************)
\* dias_mora counting the days of a paid installment too
dias_mora_SinPagado(a, today) ==
    IF DateLess(a.fecha_pago, today)
    THEN Ordinal(today) - Ordinal(a.fecha_pago)
    ELSE 0

\* Amortizacion.dias_mora with date.today() = today
dias_mora(a, today) ==
    IF a.pagado THEN 0
    ELSE IF DateLess(a.fecha_pago, today)
         THEN Ordinal(today) - Ordinal(a.fecha_pago)
    ELSE 0

\* Amortizacion.estado: the label and the number of days it shows
estado(a, today) ==
    IF a.pagado THEN <<"PAGADA", 0>>
    ELSE IF dias_mora(a, today) > 0 THEN <<"MORA", dias_mora(a, today)>>
    ELSE <<"PENDIENTE", 0>>

MaxDiasMora == 60

\* the dates posted to AmortizacionForm while the days pass
FechasMora == {NULL, Hoy0}

InitMora ==
    /\ pendientes = {}
    /\ lectura = LecturaNinguna
    /\ hoy = Hoy0
    /\ ultimo_pk = 1
    /\ resp = Resp("prestamo_crear", {})
    /\ gen = GenNinguno
    /\ \E e \in EnviosBuenos :
          /\ e.ci = EnvioBase.ci
          /\ e.monto = EnvioBase.monto
          /\ prestamos = <<Filas[e]>>
          /\ amortizaciones = generar_amortizacion({}, 1, Filas[e])

\* the admin page of installment a renders dias_mora and estado
Leer(a) ==
    /\ a \in amortizaciones
    /\ lectura' = [cuota |-> a, dias_mora |-> dias_mora(a, hoy),
                   estado |-> estado(a, hoy)]
    /\ UNCHANGED <<prestamos, amortizaciones, hoy, ultimo_pk, resp, gen, pendientes>>

\* midnight passes; the page displayed before is gone
PasarDiaMora ==
    /\ Ordinal(hoy) - Ordinal(Hoy0) < MaxDiasMora
    /\ hoy' = NextDay(hoy)
    /\ lectura' = LecturaNinguna
    /\ UNCHANGED <<prestamos, amortizaciones, ultimo_pk, resp, gen, pendientes>>

NextMora ==
    \/ \E a \in amortizaciones : Leer(a)
    \/ \E a \in amortizaciones, pagado \in BOOLEAN, fecha \in FechasMora :
          amortizacion_actualizar(a, pagado, fecha)
    \/ PasarDiaMora

SpecMora == InitMora /\ [][NextMora]_vars

\* the number of days from date a to date b, counted one day at a time;
\* 0 when b is not after a
RECURSIVE DiasEntre(_, _)
DiasEntre(a, b) == IF DateLess(a, b) THEN 1 + DiasEntre(NextDay(a), b) ELSE 0

\* C22: for the installment displayed and the current date, days-overdue is
\* max(0, today - due date) in days when the installment is unpaid and 0
\* when it is paid, and the status is exactly one of PAGADA (iff paid),
\* MORA with n days (iff unpaid and days-overdue = n > 0) or PENDIENTE (iff
\* unpaid and the due date is today or later).
C22_MoraYEstado ==
    lectura # LecturaNinguna =>
        /\ lectura.dias_mora =
               IF lectura.cuota.pagado THEN 0
               ELSE DiasEntre(lectura.cuota.fecha_pago, hoy)
        /\ lectura.estado[1] \in {"PAGADA", "MORA", "PENDIENTE"}
        /\ lectura.estado = <<"PAGADA", 0>> <=> lectura.cuota.pagado
        /\ lectura.estado[1] = "MORA" <=>
               ~lectura.cuota.pagado /\ lectura.dias_mora > 0
        /\ lectura.estado[1] = "MORA" => lectura.estado[2] = lectura.dias_mora
        /\ lectura.estado = <<"PENDIENTE", 0>> <=>
               /\ ~lectura.cuota.pagado
               /\ ~DateLess(lectura.cuota.fecha_pago, hoy)

\* an unpaid installment more than a week past its due date is displayed
\* while another installment of the loan is paid
C22_Witness ==
    /\ lectura # LecturaNinguna
    /\ lectura.estado[1] = "MORA"
    /\ lectura.dias_mora > 7
    /\ \E a \in amortizaciones : a.pagado

\* row c is row a except, at most, for the paid flag and the actual date
SoloCambiaPago(a, c) ==
    c = [a EXCEPT !.pagado = c.pagado, !.fecha_pago_real = c.fecha_pago_real]

\* the step leaves the loans alone, keeps every installment but a, and
\* puts in a's place one row that differs from a at most in the paid flag
\* and the actual date
MarcoDeCuota(a) ==
    /\ prestamos' = prestamos
    /\ amortizaciones \ {a} \subseteq amortizaciones'
    /\ Cardinality(amortizaciones') = Cardinality(amortizaciones)
    /\ \E c \in amortizaciones' \ (amortizaciones \ {a}) : SoloCambiaPago(a, c)

\* C23: a payment update on an installment, accepted or rejected, changes
\* at most the paid flag and the actual payment date of that installment:
\* its other fields, every other installment and the loans stay as they
\* were, and no installment is created or destroyed.  (Written
\* contrapositively: a step that does more is not a payment update of a.)
C23_SoloCambiaLaCuota ==
    [][\A a \in amortizaciones :
          ~MarcoDeCuota(a) =>
              \A pagado \in BOOLEAN, fecha \in FechasPago :
                  ~amortizacion_actualizar(a, pagado, fecha)]_vars

\* a payment update was accepted while each of the two loans has a paid
\* installment and an installment of the first loan is unpaid
C23_Witness ==
    /\ UltimaEsPago
    /\ resp.ok
    /\ \E a \in CuotasDe(amortizaciones, 1) : a.pagado
    /\ \E a \in CuotasDe(amortizaciones, 1) : ~a.pagado
    /\ \E a \in CuotasDe(amortizaciones, 2) : a.pagado

====
